---- MODULE Spec2Model ----
(***************************************************************************)
(* Model of rasa/nlu/training_data/util.py: the synonym merger             *)
(* (transform_entity_synonyms), the conflict checker                       *)
(* (check_duplicate_synonym), the format sniffer (get_file_format) and the *)
(* entity filter (remove_untrainable_entities_from).                       *)
(*                                                                         *)
(* Python objects are modelled by what the code can observe of them:       *)
(*   - a dict is a function whose DOMAIN is its key set; {} is <<>>;       *)
(*   - a dict that is passed by reference lives in the heap `tables`, a    *)
(*     sequence of dicts, and is named by its index (its identity);        *)
(*   - a raised exception is the field `raised` of the call record.        *)
(***************************************************************************)
EXTENDS Integers, Sequences, FiniteSets, TLC

VARIABLES
    tables,     \* heap of SynonymTable objects: index = object identity
    hist,       \* ghost: how the current chain of merge calls started and what it was fed
    warnings,   \* what warnings.warn has been called with, in order
    existing,   \* the paths for which os.path.exists is true
    files,      \* per existing path, the formats guess_format gives its listed files
    example,    \* the TrainingExample dict handed to the entity filter
    log,        \* what logger.warning has been called with, in order
    call,       \* ghost: the last completed call (operation, arguments, outcome)
    ncalls      \* number of calls made so far

vars == <<tables, hist, warnings, existing, files, example, log, call, ncalls>>

----------------------------------------------------------------------------
(* Bounds of the model *)

MaxWork == 4       \* loop iterations (declarations plus their synonyms) fed to one table
MaxCalls == 2      \* calls per behaviour
MaxFiles == 3      \* files listed under a resource
MaxEntities == 3   \* entities of an example

Texts == {"a", "b"}                 \* surface forms
Values == {"x", "y"}                \* canonical values

SeqsUpTo(S, n) == UNION {[1..k -> S] : k \in 0..n}

Range(q) == {q[i] : i \in 1..Len(q)}

----------------------------------------------------------------------------
(* Python values *)

EmptyDict == <<>>

NoneRef == 0       \* known_synonyms=None: no table object

NoError == "no error"

\* Every SynonymTable over the modelled texts and values.
SynonymTables == UNION {[D -> Values] : D \in SUBSET Texts}

\* SynonymDeclaration dicts: with both fields, with one of them, with neither;
\* the synonyms lists have up to n entries.
Declarations(n) ==
    {[value |-> v, synonyms |-> q] : v \in Values, q \in SeqsUpTo(Texts, n)}
        \cup {[value |-> "x"], [synonyms |-> <<"a">>], EmptyDict}

\* The loop iterations a declaration costs: one for itself, one per synonym.
Work(s) == 1 + (IF "synonyms" \in DOMAIN s THEN Len(s.synonyms) ELSE 0)

RECURSIVE WorkOf(_)
WorkOf(synonyms) ==
    IF synonyms = <<>> THEN 0 ELSE Work(Head(synonyms)) + WorkOf(Tail(synonyms))

\* Every sequence of declarations costing at most w iterations.
RECURSIVE DeclarationSeqs(_)
DeclarationSeqs(w) ==
    {<<>>} \cup UNION {{<<d>> \o q : q \in DeclarationSeqs(w - Work(d))} :
                         d \in {e \in Declarations(w - 1) : Work(e) <= w}}

----------------------------------------------------------------------------
(* transform_entity_synonyms, util.py:17-26 *)

\* line 21: `known_synonyms if known_synonyms else {}` takes the supplied
\* object only when it is truthy, i.e. not None and not an empty dict.
KnownIsFalsyAlways(known, heap) == FALSE

KnownIsTruthy(known, heap) == known # NoneRef /\ DOMAIN heap[known] # {}

\* line 25: entity_synonyms[synonym] = s["value"]
SetItemKeepFirst(d, k, v) == d @@ (k :> v)

SetItem(d, k, v) == (k :> v) @@ d

\* line 23: "value" in s and "synonyms" in s
HasSynonymsOnly(s) == "synonyms" \in DOMAIN s

HasValueAndSynonyms(s) == "value" \in DOMAIN s /\ "synonyms" \in DOMAIN s

\* lines 24-25: the inner loop; s["value"] is a subscript and raises KeyError
\* when the key is absent.
RECURSIVE InnerLoop(_, _, _)
InnerLoop(st, s, syns) ==
    IF syns = <<>> \/ st.raised # NoError THEN st
    ELSE IF "value" \notin DOMAIN s THEN [st EXCEPT !.raised = "KeyError"]
    ELSE InnerLoop([st EXCEPT !.table = SetItem(@, Head(syns), s.value)], s, Tail(syns))

\* lines 23-25: the body of the outer loop for one declaration
LoopBody(st, s) ==
    IF HasValueAndSynonyms(s)
    THEN IF "synonyms" \notin DOMAIN s
         THEN [st EXCEPT !.raised = "KeyError"]
         ELSE InnerLoop(st, s, s.synonyms)
    ELSE st

\* lines 22-25: for s in synonyms
RECURSIVE OuterLoop(_, _)
OuterLoop(st, synonyms) ==
    IF synonyms = <<>> \/ st.raised # NoError THEN st
    ELSE OuterLoop(LoopBody(st, Head(synonyms)), Tail(synonyms))

\* The whole function on a heap: which object it writes to, the heap after the
\* call and what it returns (NoneRef when it raised).
Transform(synonyms, known, heap) ==
    LET fresh == Len(heap) + 1
        target == IF KnownIsTruthy(known, heap) THEN known ELSE fresh
        heap0 == IF target = fresh THEN Append(heap, EmptyDict) ELSE heap
        st == OuterLoop([table |-> heap0[target], raised |-> NoError], synonyms)
    IN  [heap |-> [heap0 EXCEPT ![target] = st.table],
         ret |-> IF st.raised = NoError THEN target ELSE NoneRef,
         raised |-> st.raised]

\* A merge call. The first call of a chain is given no table or the starting
\* table; a later call is given the table the previous call returned.
TransformEntitySynonyms ==
    /\ ncalls < MaxCalls
    /\ call.op \in {"none", "transform_entity_synonyms"}
    /\ \E synonyms \in DeclarationSeqs(MaxWork - WorkOf(hist.decls)),
          known \in (IF ncalls = 0 THEN {NoneRef, 1} ELSE {call.ret}) :
          LET r == Transform(synonyms, known, tables)
          IN  /\ ncalls > 0 => call.raised = NoError
              /\ tables' = r.heap
              /\ call' = [op |-> "transform_entity_synonyms", synonyms |-> synonyms,
                          known |-> known, pre |-> tables, ret |-> r.ret,
                          raised |-> r.raised]
              /\ hist' = [known0 |-> IF ncalls = 0 THEN known ELSE hist.known0,
                          start |-> hist.start,
                          decls |-> hist.decls \o synonyms]
    /\ ncalls' = ncalls + 1
    /\ UNCHANGED <<warnings, existing, files, example, log>>

InitSyn ==
    /\ tables \in {<<t>> : t \in SynonymTables}
    /\ hist = [known0 |-> NoneRef, start |-> tables, decls |-> <<>>]
    /\ warnings = <<>>
    /\ existing = {}
    /\ files = <<>>
    /\ example = EmptyDict
    /\ log = <<>>
    /\ call = [op |-> "none"]
    /\ ncalls = 0

NextSyn == TransformEntitySynonyms

SpecSyn == InitSyn /\ [][NextSyn]_vars

----------------------------------------------------------------------------
(* Claims about transform_entity_synonyms *)

IsTransformCall == call.op = "transform_entity_synonyms"

\* The contents the call started from: those of the supplied table, or nothing.
StartContents == IF call.known = NoneRef THEN EmptyDict ELSE call.pre[call.known]

\* The declarations of the call that carry both fields and list text t.
Listing(t) ==
    {i \in 1..Len(call.synonyms) :
        /\ "value" \in DOMAIN call.synonyms[i]
        /\ "synonyms" \in DOMAIN call.synonyms[i]
        /\ t \in Range(call.synonyms[i].synonyms)}

Last(I) == CHOOSE i \in I : \A j \in I : j <= i

\* C1 (as stated): whenever a table is supplied, also an empty one, the table
\* returned is the supplied object and the supplied object holds every entry
\* the merge wrote; a new object is created only when none is supplied.
C1_SuppliedTableIsReturned ==
    (IsTransformCall /\ call.raised = NoError) =>
        /\ call.known # NoneRef =>
              /\ call.ret = call.known
              /\ \A t \in Texts : Listing(t) # {} =>
                    /\ t \in DOMAIN tables[call.known]
                    /\ tables[call.known][t] = call.synonyms[Last(Listing(t))].value
        /\ call.ret \notin DOMAIN call.pre => call.known = NoneRef

\* C2: the returned table maps every listed surface form to the value of the
\* last complete declaration listing it, keeps every other starting entry, and
\* has no other key.
C2_LaterDeclarationWins ==
    IsTransformCall =>
        /\ call.raised = NoError
        /\ \A t \in Texts :
              IF Listing(t) # {}
              THEN /\ t \in DOMAIN tables[call.ret]
                   /\ tables[call.ret][t] = call.synonyms[Last(Listing(t))].value
              ELSE IF t \in DOMAIN StartContents
              THEN /\ t \in DOMAIN tables[call.ret]
                   /\ tables[call.ret][t] = StartContents[t]
              ELSE t \notin DOMAIN tables[call.ret]
        /\ DOMAIN tables[call.ret] \subseteq Texts

\* A call in which a later declaration overwrote an earlier one's entry and an
\* entry of the starting table survived.
C2_Witness ==
    /\ IsTransformCall
    /\ \E t \in Texts :
          /\ Cardinality(Listing(t)) >= 2
          /\ \E i \in Listing(t) :
                call.synonyms[i].value # call.synonyms[Last(Listing(t))].value
    /\ \E t \in DOMAIN StartContents : Listing(t) = {}

IsComplete(s) == "value" \in DOMAIN s /\ "synonyms" \in DOMAIN s

\* C3: incomplete declarations contribute nothing and raise nothing: the result
\* is that of merging the sequence with them removed.
C3_IncompleteDeclarationsSkipped ==
    IsTransformCall =>
        /\ call.raised = NoError
        /\ LET r == Transform(SelectSeq(call.synonyms, IsComplete), call.known, call.pre)
           IN  /\ r.raised = NoError
               /\ tables[call.ret] = r.heap[r.ret]

\* A call that mixed incomplete declarations of both kinds with a complete one
\* that wrote an entry.
C3_Witness ==
    /\ IsTransformCall
    /\ \E i, j \in 1..Len(call.synonyms) :
          /\ ~IsComplete(call.synonyms[i])
          /\ IsComplete(call.synonyms[j])
          /\ call.synonyms[j].synonyms # <<>>
    /\ call.raised = NoError

\* C10: the table after a chain of merge calls, each fed the table the previous
\* one returned, has the contents of one merge of the concatenated declarations
\* into the starting table.
C10_ChainEqualsOneMerge ==
    (IsTransformCall /\ call.raised = NoError) =>
        LET r == Transform(hist.decls, hist.known0, hist.start)
        IN  /\ r.raised = NoError
            /\ tables[call.ret] = r.heap[r.ret]

\* A second merge call whose predecessor had written entries and which itself
\* overwrote one of them.
C10_Witness ==
    /\ IsTransformCall
    /\ ncalls = 2
    /\ Len(call.synonyms) > 0
    /\ Len(hist.decls) > Len(call.synonyms)
    /\ call.known # NoneRef
    /\ \E t \in DOMAIN call.pre[call.known] :
          tables[call.ret][t] # call.pre[call.known][t]

----------------------------------------------------------------------------
(* check_duplicate_synonym, util.py:29-37 *)

Contexts == {"", "loading"}         \* context_str; "" is the default

\* line 32: text in entity_synonyms and entity_synonyms[text] != syn
WarnsOnAnyKnownText(entity_synonyms, text, syn) == text \in DOMAIN entity_synonyms

IsInconsistent(entity_synonyms, text, syn) ==
    text \in DOMAIN entity_synonyms /\ entity_synonyms[text] # syn

\* lines 33-37: the fields the warning text is formatted from
DuplicateWarning(entity_synonyms, text, syn, context_str) ==
    [context |-> context_str, text |-> text, old |-> entity_synonyms[text], new |-> syn]

\* A conflict check of the table at tables[1]; the function returns None and
\* assigns nothing.
CheckDuplicateSynonym ==
    /\ ncalls < MaxCalls
    /\ \E text \in Texts, syn \in Values, context_str \in Contexts :
          /\ warnings' = IF IsInconsistent(tables[1], text, syn)
                         THEN Append(warnings,
                                     DuplicateWarning(tables[1], text, syn, context_str))
                         ELSE warnings
          /\ call' = [op |-> "check_duplicate_synonym", text |-> text, syn |-> syn,
                      context |-> context_str, pre |-> tables, before |-> warnings,
                      raised |-> NoError]
    /\ ncalls' = ncalls + 1
    /\ UNCHANGED <<tables, hist, existing, files, example, log>>

NextDup == CheckDuplicateSynonym

SpecDup == InitSyn /\ [][NextDup]_vars

IsCheckCall == call.op = "check_duplicate_synonym"

\* C4: a warning is emitted exactly when the text is already a key whose value
\* differs from syn; the call raises nothing and leaves the table as it was.
C4_WarnsIffInconsistent ==
    IsCheckCall =>
        /\ IF call.text \in DOMAIN call.pre[1] /\ call.pre[1][call.text] # call.syn
           THEN /\ Len(warnings) = Len(call.before) + 1
                /\ SubSeq(warnings, 1, Len(call.before)) = call.before
                /\ warnings[Len(warnings)].text = call.text
                /\ warnings[Len(warnings)].old = call.pre[1][call.text]
                /\ warnings[Len(warnings)].new = call.syn
                /\ warnings[Len(warnings)].context = call.context
           ELSE warnings = call.before
        /\ call.raised = NoError
        /\ tables = call.pre

\* An earlier check warned; the last one found the text stored with the same
\* value and stayed silent.
C4_Witness ==
    /\ IsCheckCall
    /\ ncalls = 2
    /\ Len(warnings) = 1
    /\ warnings = call.before
    /\ call.text \in DOMAIN tables[1]

----------------------------------------------------------------------------
(* get_file_format, util.py:40-57 *)

PyNone == [type |-> "NoneType"]

PyStr(p) == [type |-> "str", s |-> p]

RealPaths == {"data", "nlu.md"}     \* paths that may exist; "" never does

Formats == {"md", "json", "unk"}    \* tags guess_format may give a file

ResourceNames == {PyNone, PyStr("")} \cup {PyStr(p) : p \in RealPaths}

\* os.path.exists
Exists(resource_name, paths) == resource_name.s \in paths

\* line 43: resource_name is None or not os.path.exists(resource_name)
IsMissingNoneOnly(resource_name, paths) == resource_name = PyNone

IsMissing(resource_name, paths) ==
    resource_name = PyNone \/ ~Exists(resource_name, paths)

\* io_utils.list_files: the files found under the path
ListFiles(resource_name, listing) ==
    IF resource_name # PyNone /\ resource_name.s \in DOMAIN listing
    THEN [i \in 1..Len(listing[resource_name.s]) |->
             [dir |-> resource_name.s, n |-> i, content |-> listing[resource_name.s][i]]]
    ELSE <<>>

\* loading.guess_format: the tag of one file
GuessFormat(f) == f.content

\* lines 50-57: the tag for the whole resource
FormatOfFirstFile(file_formats) ==
    IF file_formats = <<>> THEN "json"
    ELSE IF file_formats[1] = "md" THEN file_formats[1] ELSE "json"

ResourceFormat(file_formats) ==
    IF file_formats = <<>> THEN "json"
    ELSE LET fformat == file_formats[1]
         IN  IF fformat = "md" /\ \A i \in 1..Len(file_formats) : file_formats[i] = fformat
             THEN fformat
             ELSE "json"

GetFileFormat ==
    /\ ncalls < MaxCalls
    /\ \E resource_name \in ResourceNames :
          IF IsMissing(resource_name, existing)
          THEN call' = [op |-> "get_file_format", resource_name |-> resource_name,
                        raised |-> "AttributeError", carries |-> resource_name,
                        ret |-> "", listed |-> <<>>, guessed |-> <<>>]
          ELSE LET fs == ListFiles(resource_name, files)
                   file_formats == [i \in 1..Len(fs) |-> GuessFormat(fs[i])]
               IN  call' = [op |-> "get_file_format", resource_name |-> resource_name,
                            raised |-> NoError, carries |-> PyNone,
                            ret |-> ResourceFormat(file_formats),
                            listed |-> <<resource_name>>, guessed |-> fs]
    /\ ncalls' = ncalls + 1
    /\ UNCHANGED <<tables, hist, warnings, existing, files, example, log>>

InitFmt ==
    /\ existing \in SUBSET RealPaths
    /\ files \in [existing -> SeqsUpTo(Formats, MaxFiles)]
    /\ tables = <<>>
    /\ hist = [known0 |-> NoneRef, start |-> tables, decls |-> <<>>]
    /\ warnings = <<>>
    /\ example = EmptyDict
    /\ log = <<>>
    /\ call = [op |-> "none"]
    /\ ncalls = 0

NextFmt == GetFileFormat

SpecFmt == InitFmt /\ [][NextFmt]_vars

IsFormatCall == call.op = "get_file_format"

\* The error of line 44, which the specification calls ResourceNotFound.
ResourceNotFound == "AttributeError"

PathIsAbsent ==
    \/ call.resource_name = PyNone
    \/ call.resource_name.s = ""
    \/ call.resource_name.s \notin existing

\* C5: on a null, empty or non-existent path the call fails with
\* ResourceNotFound carrying the path, returns no tag, and has listed and
\* guessed nothing.
C5_MissingResourceFails ==
    (IsFormatCall /\ PathIsAbsent) =>
        /\ call.raised = ResourceNotFound
        /\ call.carries = call.resource_name
        /\ call.ret \notin {"md", "json"}
        /\ call.listed = <<>>
        /\ call.guessed = <<>>

\* The empty path was asked for while another path exists and lists files.
C5_Witness ==
    /\ IsFormatCall
    /\ call.resource_name = PyStr("")
    /\ call.raised = ResourceNotFound
    /\ \E p \in existing : files[p] # <<>>

\* C6: on an existing path the result is "md" or "json"; it is "md" exactly
\* when at least one file is listed and every listed file is guessed "md".
C6_MarkdownOnlyWhenAllMarkdown ==
    (IsFormatCall /\ ~PathIsAbsent) =>
        LET tags == files[call.resource_name.s]
        IN  /\ call.raised = NoError
            /\ call.ret \in {"md", "json"}
            /\ call.ret = "md" <=>
                  (Len(tags) >= 1 /\ \A i \in 1..Len(tags) : tags[i] = "md")

\* A resource whose first file is markdown and whose other files share one
\* tag that is neither markdown nor JSON: the result is JSON.
C6_Witness ==
    /\ IsFormatCall
    /\ ~PathIsAbsent
    /\ LET tags == files[call.resource_name.s]
       IN  /\ Len(tags) = 3
           /\ tags[1] = "md"
           /\ tags[2] = "unk"
           /\ tags[3] = "unk"
    /\ call.ret = "json"

----------------------------------------------------------------------------
(* remove_untrainable_entities_from, util.py:60-89 *)

\* rasa.nlu.constants, imported at lines 8-12
ENTITIES_ATTRIBUTE == "entities"

EXTRACTOR_ATTRIBUTE == "extractor"

PRETRAINED_EXTRACTORS == {"SpacyEntityExtractor", "DucklingHTTPExtractor"}

Extractors == PRETRAINED_EXTRACTORS \cup {"CRFEntityExtractor"}

EntityTypes == {"city", "time"}

\* EntityAnnotation dicts, with and without the extractor attribute
Entities ==
    {[entity |-> e, extractor |-> x] : e \in EntityTypes, x \in Extractors}
        \cup {[entity |-> e] : e \in EntityTypes}

\* TrainingExample dicts, with and without the entities attribute
Examples ==
    {[text |-> "hi"]}
        \cup {[text |-> "hi", entities |-> q] : q \in SeqsUpTo(Entities, MaxEntities)}

\* lines 70-72: example.get(ENTITIES_ATTRIBUTE) is None or empty
HasNoEntities(ex) ==
    ENTITIES_ATTRIBUTE \notin DOMAIN ex \/ ex[ENTITIES_ATTRIBUTE] = <<>>

\* line 79: entity.get(EXTRACTOR_ATTRIBUTE) in PRETRAINED_EXTRACTORS
IsPretrained(entity) ==
    /\ EXTRACTOR_ATTRIBUTE \in DOMAIN entity
    /\ entity[EXTRACTOR_ATTRIBUTE] \in PRETRAINED_EXTRACTORS

\* lines 80-85: the fields the log line is formatted from
ExclusionWarning(entity) == [excluding |-> entity, classes |-> PRETRAINED_EXTRACTORS]

LogOnce(lg, entity) ==
    IF ExclusionWarning(entity) \in Range(lg) THEN lg ELSE Append(lg, ExclusionWarning(entity))

LogWarning(lg, entity) == Append(lg, ExclusionWarning(entity))

\* line 87: trainable_entities.append(entity)
KeepInFront(trainable_entities, entity) == <<entity>> \o trainable_entities

Keep(trainable_entities, entity) == Append(trainable_entities, entity)

\* lines 78-87: the loop over the example's entities
RECURSIVE FilterLoop(_, _, _)
FilterLoop(rest, trainable_entities, lg) ==
    IF rest = <<>> THEN [trainable |-> trainable_entities, log |-> lg]
    ELSE IF IsPretrained(Head(rest))
    THEN FilterLoop(Tail(rest), trainable_entities, LogWarning(lg, Head(rest)))
    ELSE FilterLoop(Tail(rest), Keep(trainable_entities, Head(rest)), lg)

\* The loop as it would run if it removed from the list it iterates over: the
\* entity after a removed one is never looked at.
RECURSIVE SkippingLoop(_, _, _)
SkippingLoop(rest, trainable_entities, lg) ==
    IF rest = <<>> THEN [trainable |-> trainable_entities, log |-> lg]
    ELSE IF IsPretrained(Head(rest))
    THEN IF Tail(rest) = <<>>
         THEN [trainable |-> trainable_entities, log |-> LogWarning(lg, Head(rest))]
         ELSE SkippingLoop(Tail(Tail(rest)), Keep(trainable_entities, Head(Tail(rest))),
                           LogWarning(lg, Head(rest)))
    ELSE SkippingLoop(Tail(rest), Keep(trainable_entities, Head(rest)), lg)

FilterInPlace(example_entities, lg) == SkippingLoop(example_entities, <<>>, lg)

\* lines 76-87: trainable_entities = [] and the loop
FilterEntities(example_entities, lg) == FilterLoop(example_entities, <<>>, lg)

RemoveUntrainableEntitiesFrom ==
    /\ ncalls < MaxCalls
    /\ IF HasNoEntities(example)
       THEN UNCHANGED <<example, log>>
       ELSE LET r == FilterEntities(example[ENTITIES_ATTRIBUTE], log)
            IN  /\ example' = [example EXCEPT ![ENTITIES_ATTRIBUTE] = r.trainable]
                /\ log' = r.log
    /\ call' = [op |-> "remove_untrainable_entities_from", pre |-> example,
                before |-> log]
    /\ ncalls' = ncalls + 1
    /\ UNCHANGED <<tables, hist, warnings, existing, files>>

InitEnt ==
    /\ example \in Examples
    /\ log = <<>>
    /\ tables = <<>>
    /\ hist = [known0 |-> NoneRef, start |-> tables, decls |-> <<>>]
    /\ warnings = <<>>
    /\ existing = {}
    /\ files = <<>>
    /\ call = [op |-> "none"]
    /\ ncalls = 0

NextEnt == RemoveUntrainableEntitiesFrom

SpecEnt == InitEnt /\ [][NextEnt]_vars

IsRemoveCall == call.op = "remove_untrainable_entities_from"

HadEntities == "entities" \in DOMAIN call.pre /\ call.pre.entities # <<>>

Untrainable(entity) ==
    "extractor" \in DOMAIN entity
        /\ entity.extractor \in {"SpacyEntityExtractor", "DucklingHTTPExtractor"}

Trainable(entity) == ~Untrainable(entity)

\* C7: after a call on an example with entities, the entities attribute is the
\* subsequence of the original entities whose extractor is not pretrained, in
\* the original order, each unchanged; nothing else of the example changes.
C7_SurvivorsInOrder ==
    (IsRemoveCall /\ HadEntities) =>
        /\ DOMAIN example = DOMAIN call.pre
        /\ example.entities = SelectSeq(call.pre.entities, Trainable)
        /\ example.text = call.pre.text

\* Two different survivors, one of them without an extractor, around a dropped
\* entity.
C7_Witness ==
    /\ IsRemoveCall
    /\ HadEntities
    /\ Len(call.pre.entities) = 3
    /\ Trainable(call.pre.entities[1])
    /\ Untrainable(call.pre.entities[2])
    /\ "extractor" \notin DOMAIN call.pre.entities[3]
    /\ call.pre.entities[1] # call.pre.entities[3]
    /\ Len(example.entities) = 2

\* C8: a call logs one warning per entity with a pretrained extractor, in the
\* input order of those entities; on an example without entities it logs
\* nothing and changes nothing.
C8_OneWarningPerDroppedEntity ==
    IsRemoveCall =>
        IF HadEntities
        THEN LET dropped == SelectSeq(call.pre.entities, Untrainable)
             IN  /\ Len(log) = Len(call.before) + Len(dropped)
                 /\ SubSeq(log, 1, Len(call.before)) = call.before
                 /\ \A i \in 1..Len(dropped) :
                       log[Len(call.before) + i].excluding = dropped[i]
        ELSE log = call.before /\ example = call.pre

\* The same entity dropped twice, and a different one after it.
C8_Witness ==
    /\ IsRemoveCall
    /\ HadEntities
    /\ Len(call.pre.entities) = 3
    /\ Untrainable(call.pre.entities[1])
    /\ call.pre.entities[2] = call.pre.entities[1]
    /\ Untrainable(call.pre.entities[3])
    /\ call.pre.entities[3] # call.pre.entities[1]
    /\ Len(log) = 3

\* C9: a second call in a row changes nothing and logs nothing.
C9_SecondCallChangesNothing ==
    (IsRemoveCall /\ ncalls >= 2) =>
        /\ example = call.pre
        /\ log = call.before

\* The first call dropped every entity and left an empty sequence; the second
\* call has run.
C9_Witness ==
    /\ IsRemoveCall
    /\ ncalls = 2
    /\ "entities" \in DOMAIN example
    /\ example.entities = <<>>
    /\ Len(log) >= 2

====
